---------------------------- MODULE Spec2Model ----------------------------
(***************************************************************************)
(* LinkPlay media player (homeassistant/components/media_player/          *)
(* linkplay.py): the device object's state, its refresh (update) and its  *)
(* control commands.                                                       *)
(*                                                                         *)
(* Representation.  A Python str is a sequence of code points, so "Foo"   *)
(* is <<70, 111, 111>> and its hex encoding "466f6f" is                   *)
(* <<52, 54, 54, 102, 54, 102>>: the two are values of the same type and  *)
(* can be compared, as the code compares them.  None is <<-1>> where a    *)
(* str is expected and -1 where an int is expected.  Enumerated names     *)
(* (source names, sound modes, playback states, dictionary keys) that the *)
(* code only compares with literals are TLA+ strings.                     *)
(***************************************************************************)
EXTENDS Integers, Sequences, FiniteSets, TLC

(***************************************************************************)
(* Bounds of the model.                                                    *)
(***************************************************************************)
\* The clock read by utcnow() advances by one from a refresh to the next,
\* up to MaxTime, where it stays.
MaxTime == 1

\* setup_platform is called for at most MaxPlayers devices.
MaxPlayers == 2

\* The host drives the device objects from MaxThreads threads.
MaxThreads == 2

(***************************************************************************)
(* Python values.                                                          *)
(***************************************************************************)
None == <<-1>>
NoneInt == -1

\* str(n) for an integer n >= 0: its decimal digits.
RECURSIVE str(_)
str(n) == IF n < 10 THEN <<48 + n>> ELSE str(n \div 10) \o <<48 + (n % 10)>>

\* int(s) for a str of decimal digits (the numeric fields of this model's
\* payloads are all such).
RECURSIVE int(_)
int(s) == IF Len(s) = 0 THEN 0
          ELSE 10 * int(SubSeq(s, 1, Len(s) - 1)) + (s[Len(s)] - 48)

\* int(int(ms) / 1000): true division, then truncation (ms >= 0 here).
Seconds(ms) == int(ms) \div 1000

\* s.find(sub, start): the lowest index >= start (0-based) at which sub
\* occurs in s, -1 if none; a negative start counts from the end.
find(s, sub, start) ==
    LET from == IF start >= 0 THEN start
                ELSE IF Len(s) + start > 0 THEN Len(s) + start ELSE 0
        hits == {i \in from..(Len(s) - Len(sub)) :
                    SubSeq(s, i + 1, i + Len(sub)) = sub}
    IN  IF hits = {} THEN -1
        ELSE CHOOSE i \in hits : \A j \in hits : i <= j

(***************************************************************************)
(* Hex fields.  HexEncode is what the device does to a text; fromhex and  *)
(* decode are bytearray.fromhex(s).decode() on the receiving side.        *)
(***************************************************************************)
HexDigit(n) == IF n < 10 THEN 48 + n ELSE 87 + n

RECURSIVE HexEncode(_)
HexEncode(s) ==
    IF Len(s) = 0 THEN <<>>
    ELSE <<HexDigit(Head(s) \div 16), HexDigit(Head(s) % 16)>>
            \o HexEncode(Tail(s))

IsHexChar(c) == c \in 48..57 \/ c \in 97..102 \/ c \in 65..70

HexValue(c) == IF c \in 48..57 THEN c - 48
               ELSE IF c \in 97..102 THEN c - 87 ELSE c - 55

\* bytearray.fromhex(s) raises ValueError unless s is pairs of hex digits.
fromhex_ok(s) == Len(s) % 2 = 0 /\ \A i \in 1..Len(s) : IsHexChar(s[i])

fromhex(s) ==
    [i \in 1..(Len(s) \div 2) |->
        16 * HexValue(s[2 * i - 1]) + HexValue(s[2 * i])]

\* bytes.decode(): UTF-8.  Bytes below 128 are their own code point; a byte
\* of 128 or more that is not part of a well-formed multi-byte sequence
\* raises UnicodeDecodeError (a ValueError).  The payloads of this model
\* carry ASCII text and lone bytes >= 128 only.
decode_ok(b) == \A i \in 1..Len(b) : b[i] < 128

\* str(bytearray.fromhex(h).decode()) succeeds
hexfield_ok(h) == fromhex_ok(h) /\ decode_ok(fromhex(h))

hexfield(h) == fromhex(h)

(***************************************************************************)
(* Literals of the source.                                                 *)
(***************************************************************************)
MAX_VOL == 100

STR_Unknown == <<85, 110, 107, 110, 111, 119, 110>>     \* 'Unknown'
STR_Spotify == <<83, 112, 111, 116, 105, 102, 121>>     \* 'Spotify'
STR_mp3 == <<46, 109, 112, 51>>                         \* '.mp3'
STR_0 == <<48>>                                         \* '0'
STR_empty == <<>>                                       \* ""

STATE_UNKNOWN == "unknown"
STATE_PAUSED == "paused"
STATE_PLAYING == "playing"

SOUND_MODES ==
    [k \in {"0", "1", "2", "3", "4"} |->
        CASE k = "0" -> "Normal" [] k = "1" -> "Classic" [] k = "2" -> "Pop"
          [] k = "3" -> "Jazz" [] k = "4" -> "Vocal"]

SOURCES ==
    [k \in {"wifi", "line-in", "bluetooth", "optical", "udisk"} |->
        CASE k = "wifi" -> "WiFi" [] k = "line-in" -> "Line-in"
          [] k = "bluetooth" -> "Bluetooth" [] k = "optical" -> "Optical"
          [] k = "udisk" -> "MicroSD"]

SOURCES_MAP ==
    [k \in {"0", "10", "31", "40", "41", "43"} |->
        CASE k = "0" -> "WiFi" [] k = "10" -> "WiFi" [] k = "31" -> "WiFi"
          [] k = "40" -> "Line-in" [] k = "41" -> "Bluetooth"
          [] k = "43" -> "Optical"]

\* Variant of dict.get that answers the key itself when the table lacks it.
get_or_key(table, key, default) ==
    IF key \in DOMAIN table THEN table[key] ELSE key

\* dict.get(key, default)
get(table, key, default) ==
    IF key \in DOMAIN table THEN table[key] ELSE default

\* the playback-state dictionary of update()
STATE_MAP ==
    [k \in {"stop", "play", "pause"} |->
        CASE k = "stop" -> STATE_PAUSED [] k = "play" -> STATE_PLAYING
          [] k = "pause" -> STATE_PAUSED]


(***************************************************************************)
(* Response bodies and JSON.  A body is no data (the transport failed),   *)
(* a text that is not JSON, or the JSON text of a value; json.loads       *)
(* raises ValueError on the second and yields the value of the third.     *)
(* A JSON value is tagged with its Python type.  The values of the device *)
(* status object are Python strs and are kept untagged.                   *)
(***************************************************************************)
NoData == [t |-> "None"]
Text(s) == [t |-> "text", s |-> s]
Json(v) == [t |-> "json", v |-> v]

JDict(m) == [k |-> "dict", m |-> m]
JList(l) == [k |-> "list", l |-> l]
JStr(s) == [k |-> "str", s |-> s]
EmptyMap == [x \in {} |-> 0]

OK == Text("OK")

json_loads_ok(body) == body.t = "json"
json_loads(body) == body.v
isinstance_dict(v) == v.k = "dict"

\* Outcome of an expression: a value, or the exception it raised.
Value(v) == [exc |-> "none", v |-> v]
Raise(e) == [exc |-> e, v |-> None]

\* v[key] for a str key
getkey(v, key) ==
    IF v.k = "dict"
    THEN IF key \in DOMAIN v.m THEN Value(v.m[key]) ELSE Raise("KeyError")
    ELSE Raise("TypeError")

\* v[i] for an int i >= 0
getindex(v, i) ==
    CASE v.k = "list" ->
            IF i < Len(v.l) THEN Value(v.l[i + 1]) ELSE Raise("IndexError")
      [] v.k = "dict" -> Raise("KeyError")
      [] v.k = "str" ->
            IF i < Len(v.s) THEN Value(JStr(<<v.s[i + 1]>>))
            ELSE Raise("IndexError")
      [] OTHER -> Raise("TypeError")

thenkey(r, key) == IF r.exc = "none" THEN getkey(r.v, key) ELSE r
thenindex(r, i) == IF r.exc = "none" THEN getindex(r.v, i) ELSE r

\* The Python value of a JSON leaf: a str for a JSON string.
pyvalue(v) == IF v.k = "str" THEN v.s ELSE v

(***************************************************************************)
(* The device object.                                                      *)
(***************************************************************************)
\* LinkPlayDevice.__init__; lfm is whether a last.fm key was configured.
LinkPlayDevice(lfm) ==
    [state |-> STATE_UNKNOWN,
     volume |-> None,
     source |-> "None",
     sound_mode |-> "None",
     muted |-> None,
     seek_position |-> NoneInt,
     duration |-> NoneInt,
     position_updated_at |-> NoneInt,
     shuffle |-> "None",
     media_album |-> None,
     media_artist |-> None,
     media_title |-> None,
     lpapi_data |-> NoData,
     media_image_url |-> None,
     media_uri |-> None,
     first_update |-> TRUE,
     lfmapi |-> lfm]

\* volume_level: int(self._volume) / MAX_VOL, in hundredths
volume_level_percent(d) == int(d.volume)

\* LinkPlayRestData.call: the buffer is reset, then holds the response text,
\* or None after a RequestException.
LinkPlayRestData_call(d, resp) ==
    LET reset == [d EXCEPT !.lpapi_data = NoData]
    IN  [reset EXCEPT !.lpapi_data = resp]

\* LastFMRestData.call: what self._lfmapi.data holds after the call.  The
\* buffer is written by the call and read once, right after it, so it is
\* not carried in the state.
LastFMRestData_call(resp) ==
    LET reset == NoData
    IN  resp

(***************************************************************************)
(* The outcome of a method: the device object as the method leaves it,    *)
(* what it returned ("True", "False", "None") or the exception that left  *)
(* it, whether the refresh took the new-track branch, and the enrichment  *)
(* calls it issued ("id3": the file-tag fetch, "lastfm": the cover-art    *)
(* lookup), and whether it logged a warning.                               *)
(***************************************************************************)
Outcome(d, ret, new, calls) ==
    [d |-> d, ret |-> ret, new_track |-> new, calls |-> calls,
     warning |-> FALSE]

\* _LOGGER.warning(...)
Warned(o) == [o EXCEPT !.warning = TRUE]

Returned(o) == o.ret \in {"True", "False", "None"}

\* _is_playing_new_track: status['Title'] is the field as received
is_playing_new_track(d, status) ==
    \/ Seconds(status.totlen) # d.duration
    \/ status.Title # d.media_title

\* _is_playing_mp3
is_playing_mp3(d) ==
    find(d.media_uri, STR_mp3, Len(d.media_uri) - 4) # -1

\* _is_playing_spotify
is_playing_spotify(d) ==
    d.media_title = STR_Unknown /\ d.media_artist = STR_Unknown

\* Variant of _update_from_id3 that leaves the fields alone when the fetch
\* fails.
update_from_id3_keeps(d, id3) ==
    CASE id3.r = "tags" ->
            Outcome([d EXCEPT !.media_title = id3.title,
                              !.media_artist = id3.artist,
                              !.media_album = id3.album], "None", TRUE, {"id3"})
      [] id3.r = "URLError" -> Outcome(d, "None", TRUE, {"id3"})
      [] OTHER -> Outcome(d, id3.r, TRUE, {"id3"})

(***************************************************************************)
(* _update_from_id3.  id3 is what urlretrieve and eyed3.load do with the  *)
(* track URI: r = "tags" (a tag was read; a frame the file lacks is None),*)
(* r = "URLError" (the fetch failed), or r = "AttributeError" (the file   *)
(* was fetched but holds no readable tag: eyed3.load returns None or an   *)
(* object whose tag is None, and the attribute access raises).  Only      *)
(* URLError is caught.                                                     *)
(***************************************************************************)
update_from_id3(d, id3) ==
    CASE id3.r = "tags" ->
            Outcome([d EXCEPT !.media_title = id3.title,
                              !.media_artist = id3.artist,
                              !.media_album = id3.album], "None", TRUE, {"id3"})
      [] id3.r = "URLError" ->
            Outcome([d EXCEPT !.media_title = None,
                              !.media_artist = None,
                              !.media_album = None], "None", TRUE, {"id3"})
      [] OTHER -> Outcome(d, id3.r, TRUE, {"id3"})

\* lfmdata['track']['album']['image'][2]['#text']
coverart_path(lfmdata) ==
    thenkey(thenindex(thenkey(thenkey(getkey(lfmdata, "track"), "album"),
                              "image"), 2), "#text")

\* _get_lastfm_coverart: json.loads is outside the try; the except clause
\* names ValueError and KeyError.
get_lastfm_coverart(d, resp) ==
    LET d1 == d
        data == LastFMRestData_call(resp)
    IN  IF data = NoData THEN Outcome(d1, "TypeError", TRUE, {"lastfm"})
        ELSE IF ~json_loads_ok(data)
        THEN Outcome(d1, "ValueError", TRUE, {"lastfm"})
        ELSE LET r == coverart_path(json_loads(data))
             IN  CASE r.exc = "none" ->
                        Outcome([d1 EXCEPT !.media_image_url = pyvalue(r.v)],
                                "None", TRUE, {"lastfm"})
                   [] r.exc \in {"ValueError", "KeyError"} ->
                        Outcome([d1 EXCEPT !.media_image_url = None],
                                "None", TRUE, {"lastfm"})
                   [] OTHER -> Outcome(d1, r.exc, TRUE, {"lastfm"})

\* update(), lines 451-457: the file branch
update_mp3(d, id3, lfm) ==
    LET a == update_from_id3(d, id3)
    IN  IF ~Returned(a) THEN a
        ELSE IF a.d.lfmapi /\ a.d.media_title # None
        THEN LET b == get_lastfm_coverart(a.d, lfm)
             IN  Outcome(b.d, b.ret, TRUE, a.calls \cup b.calls)
        ELSE Outcome([a.d EXCEPT !.media_image_url = None], "None", TRUE,
                     a.calls)

\* Variant of the new-track branch that tests for a file before it tests
\* for radio.
update_new_track_file_first(d, status, id3, lfm) ==
    IF ~hexfield_ok(status.Title) THEN Outcome(d, "ValueError", TRUE, {})
    ELSE
    LET d1 == [d EXCEPT !.media_title = hexfield(status.Title)]
    IN  IF ~hexfield_ok(status.Artist) THEN Outcome(d1, "ValueError", TRUE, {})
        ELSE
        LET d2 == [d1 EXCEPT !.media_artist = hexfield(status.Artist)]
        IN  IF is_playing_spotify(d2)
            THEN Outcome([d2 EXCEPT !.media_title = STR_Spotify,
                                    !.media_artist = STR_Spotify],
                         "None", TRUE, {})
            ELSE IF is_playing_mp3(d2)
            THEN update_mp3(d2, id3, lfm)
            ELSE IF status.totlen = STR_0
            THEN Outcome([d2 EXCEPT !.media_album = STR_empty,
                                    !.media_image_url = None],
                         "None", TRUE, {})
            ELSE Outcome(d2, "None", TRUE, {})

\* update(), lines 433-457: the new-track branch
update_new_track(d, status, id3, lfm) ==
    IF ~hexfield_ok(status.Title) THEN Outcome(d, "ValueError", TRUE, {})
    ELSE
    LET d1 == [d EXCEPT !.media_title = hexfield(status.Title)]
    IN  IF ~hexfield_ok(status.Artist) THEN Outcome(d1, "ValueError", TRUE, {})
        ELSE
        LET d2 == [d1 EXCEPT !.media_artist = hexfield(status.Artist)]
        IN  IF is_playing_spotify(d2)
            THEN Outcome([d2 EXCEPT !.media_title = STR_Spotify,
                                    !.media_artist = STR_Spotify],
                         "None", TRUE, {})
            ELSE IF status.totlen = STR_0
            THEN Outcome([d2 EXCEPT !.media_album = STR_empty,
                                    !.media_image_url = None],
                         "None", TRUE, {})
            ELSE IF is_playing_mp3(d2)
            THEN update_mp3(d2, id3, lfm)
            ELSE Outcome(d2, "None", TRUE, {})

\* Variant of the dict branch that takes the volume of the status only
\* with a new track.
update_dict_volume_with_track(d, status, id3, lfm, now) ==
    LET d1 == [d EXCEPT !.first_update = FALSE,
                        !.muted = status.mute,
                        !.seek_position = Seconds(status.curpos),
                        !.position_updated_at = now]
    IN  IF ~hexfield_ok(status.iuri) THEN Outcome(d1, "ValueError", FALSE, {})
        ELSE
        LET d2 == [d1 EXCEPT
                     !.media_uri = hexfield(status.iuri),
                     !.state = get(STATE_MAP, status.status, STATE_UNKNOWN),
                     !.source = get(SOURCES_MAP, status.mode, "WiFi"),
                     !.sound_mode = get(SOUND_MODES, status.eq, "None"),
                     !.shuffle = IF status.loop = "2" THEN "True" ELSE "False"]
            t == IF is_playing_new_track(d2, status)
                 THEN update_new_track([d2 EXCEPT !.volume = status.vol],
                                       status, id3, lfm)
                 ELSE Outcome(d2, "None", FALSE, {})
        IN  IF ~Returned(t) THEN t
            ELSE Outcome([t.d EXCEPT !.duration = Seconds(status.totlen)],
                         "True", t.new_track, t.calls)

\* update(), lines 410-459: the status is a dict
update_dict(d, status, id3, lfm, now) ==
    LET d1 == [d EXCEPT !.first_update = FALSE,
                        !.volume = status.vol,
                        !.muted = status.mute,
                        !.seek_position = Seconds(status.curpos),
                        !.position_updated_at = now]
    IN  IF ~hexfield_ok(status.iuri) THEN Outcome(d1, "ValueError", FALSE, {})
        ELSE
        LET d2 == [d1 EXCEPT
                     !.media_uri = hexfield(status.iuri),
                     !.state = get(STATE_MAP, status.status, STATE_UNKNOWN),
                     !.source = get(SOURCES_MAP, status.mode, "WiFi"),
                     !.sound_mode = get(SOUND_MODES, status.eq, "None"),
                     !.shuffle = IF status.loop = "2" THEN "True" ELSE "False"]
            t == IF is_playing_new_track(d2, status)
                 THEN update_new_track(d2, status, id3, lfm)
                 ELSE Outcome(d2, "None", FALSE, {})
        IN  IF ~Returned(t) THEN t
            ELSE Outcome([t.d EXCEPT !.duration = Seconds(status.totlen)],
                         "True", t.new_track, t.calls)

\* update()
update(d, resp, id3, lfm, now) ==
    LET d1 == LinkPlayRestData_call(d, resp)
        value == d1.lpapi_data
    IN  IF value = NoData THEN Outcome(d1, "False", FALSE, {})
        ELSE
        LET is_dict == json_loads_ok(value) /\ isinstance_dict(json_loads(value))
        IN  IF is_dict
            THEN update_dict(d1, json_loads(value).m, id3, lfm, now)
            ELSE Warned(Outcome(d1, "True", FALSE, {}))

(***************************************************************************)
(* Control commands.  Each sends one request and compares the response    *)
(* with "OK"; a mismatch is logged.  The request is the format string's   *)
(* fixed part and its argument.                                            *)
(***************************************************************************)
Cmd(verb, arg) == [verb |-> verb, arg |-> arg]

\* Variant of a command that marks the playback state unknown when the
\* device does not acknowledge.
command_marks_unknown(d, resp) ==
    LET d1 == LinkPlayRestData_call(d, resp)
    IN  IF d1.lpapi_data # OK
        THEN Warned(Outcome([d1 EXCEPT !.state = STATE_UNKNOWN], "None",
                            FALSE, {}))
        ELSE Outcome(d1, "None", FALSE, {})

\* self._lpapi.call('GET', cmd); value = self._lpapi.data; if value != "OK"
command(d, resp) ==
    LET d1 == LinkPlayRestData_call(d, resp)
        o == Outcome(d1, "None", FALSE, {})
    IN  IF d1.lpapi_data # OK THEN Warned(o) ELSE o

\* Variant of round that drops the fraction.
round_down(n, m) == n \div m

\* round(n / m) for n >= 0, m > 0: to the nearest integer, a tie to the even
round(n, m) ==
    LET q == n \div m
        r == n % m
    IN  IF 2 * r < m THEN q
        ELSE IF 2 * r > m THEN q + 1
        ELSE IF q % 2 = 0 THEN q ELSE q + 1

\* Variant of zfill that pads on the right.
RECURSIVE ljust0(_, _)
ljust0(s, width) == IF Len(s) >= width THEN s ELSE ljust0(s \o <<48>>, width)

\* str(preset).zfill(3)
RECURSIVE zfill(_, _)
zfill(s, width) == IF Len(s) >= width THEN s ELSE zfill(<<48>> \o s, width)

\* source.lower() for the names of the source list
lower ==
    [n \in {"WiFi", "Line-in", "Bluetooth", "Optical", "MicroSD"} |->
        CASE n = "WiFi" -> "wifi" [] n = "Line-in" -> "line-in"
          [] n = "Bluetooth" -> "bluetooth" [] n = "Optical" -> "optical"
          [] n = "MicroSD" -> "microsd"]

\* The command each method sends.  volume is in thousandths.
turn_off_cmd == Cmd("getShutdown", STR_empty)
set_volume_level_cmd(volume) ==
    Cmd("setPlayerCmd:vol:", str(round(volume * MAX_VOL, 1000)))
mute_volume_cmd(mute) ==
    Cmd("setPlayerCmd:mute:", str(IF mute THEN 1 ELSE 0))
media_play_cmd == Cmd("setPlayerCmd:play", STR_empty)
media_pause_cmd == Cmd("setPlayerCmd:pause", STR_empty)
media_next_track_cmd == Cmd("setPlayerCmd:next", STR_empty)
media_previous_track_cmd == Cmd("setPlayerCmd:prev", STR_empty)
media_seek_cmd(position) == Cmd("setPlayerCmd:seek:", str(position))
play_media_cmd(media_id) == Cmd("setPlayerCmd:play:", media_id)
select_source_cmd(source) ==
    Cmd("setPlayerCmd:switchmode:",
        IF source = "MicroSD" THEN "udisk" ELSE lower[source])
\* list(SOUND_MODES.keys())[list(SOUND_MODES.values()).index(sound_mode)]
select_sound_mode_cmd(sound_mode) ==
    Cmd("setPlayerCmd:equalizer:",
        CHOOSE k \in DOMAIN SOUND_MODES : SOUND_MODES[k] = sound_mode)
set_shuffle_cmd(shuffle) ==
    Cmd("setPlayerCmd:loopmode:", IF shuffle THEN "2" ELSE "0")
preset_button_cmd(preset) == Cmd("IOSimuKeyIn:", zfill(str(preset), 3))

(***************************************************************************)
(* What the environment can answer.                                        *)
(***************************************************************************)
\* utcnow() as read by a refresh of d
utcnow(d) ==
    IF d.position_updated_at < MaxTime THEN d.position_updated_at + 1
    ELSE MaxTime

TXT_Foo == <<70, 111, 111>>                             \* 'Foo'
TXT_Bar == <<66, 97, 114>>                              \* 'Bar'
BAD_HEX == <<122, 122>>                                 \* 'zz'

\* The playback part of a status: values within the tables and ranges, and
\* values outside them.
PlaybackTypical ==
    [vol |-> str(50), mute |-> str(0), curpos |-> str(1999),
     status |-> "play", mode |-> "40", eq |-> "2", loop |-> "2"]
PlaybackOdd ==
    [vol |-> str(150), mute |-> str(1), curpos |-> str(0),
     status |-> "load", mode |-> "99", eq |-> "9", loop |-> "0"]

Totlens == {str(0), str(180000), str(181000)}

URI_mp3 == HexEncode(<<97>> \o STR_mp3)                 \* 'a.mp3'
URI_MP3 == HexEncode(<<97, 46, 77, 80, 51>>)            \* 'a.MP3'
Uris == {URI_mp3, URI_MP3}

\* Title and Artist as sent: the hex of a text.  One title is the text
\* '556e6b6e6f776e', another the empty text.
FooBar == <<HexEncode(TXT_Foo), HexEncode(TXT_Bar)>>
TitleArtist ==
    { FooBar,
      <<HexEncode(STR_Unknown), HexEncode(STR_Unknown)>>,
      <<HexEncode(HexEncode(STR_Unknown)), HexEncode(TXT_Bar)>>,
      <<STR_empty, HexEncode(TXT_Bar)>> }

Status(pb, totlen, iuri, ta) ==
    [vol |-> pb.vol, mute |-> pb.mute, curpos |-> pb.curpos,
     totlen |-> totlen, iuri |-> iuri, Title |-> ta[1], Artist |-> ta[2],
     status |-> pb.status, mode |-> pb.mode, eq |-> pb.eq, loop |-> pb.loop]

\* Every track with the typical playback part, one file track of each
\* duration with the other, and a track of half a second with no title.
GoodStatuses ==
    {Status(PlaybackTypical, tl, u, ta) :
        tl \in Totlens, u \in Uris, ta \in TitleArtist}
      \cup {Status(PlaybackOdd, tl, URI_mp3, FooBar) : tl \in Totlens}
      \cup {Status(PlaybackOdd, str(500), URI_MP3,
                   <<STR_empty, HexEncode(TXT_Bar)>>)}

\* Statuses with a field that is not hex: the track URI, the title, the
\* artist.
BadStatuses ==
    { Status(PlaybackOdd, str(181000), BAD_HEX, FooBar),
      Status(PlaybackOdd, str(181000), URI_mp3,
             <<BAD_HEX, HexEncode(TXT_Bar)>>),
      Status(PlaybackOdd, str(181000), URI_mp3,
             <<HexEncode(TXT_Foo), BAD_HEX>>) }

Statuses == GoodStatuses \cup BadStatuses

\* What getPlayerStatus can be answered with: nothing, a text that is not
\* JSON, JSON that is not an object, a status object.
StatusResponses ==
    {NoData, Text("unknown command"), Json(JList(<<>>))}
        \cup {Json(JDict(st)) : st \in Statuses}

\* What a command can be answered with.
CommandResponses == {OK, Text("Failed"), NoData}

\* What the file-tag extraction can do.
NoCall == [r |-> "not called"]
Id3Outcomes ==
    { [r |-> "tags", title |-> <<84>>, artist |-> <<65>>, album |-> <<76>>],
      [r |-> "tags", title |-> None, artist |-> None, album |-> None],
      [r |-> "URLError"],
      [r |-> "AttributeError"] }

\* What the metadata service can answer.
IMG == JDict([size |-> JStr(<<115>>)] @@ ("#text" :> JStr(<<117>>)))
LfmTrack(album) == Json(JDict([track |-> JDict(album)]))
LfmResponses ==
    { NoData,
      Text("<html>"),
      Json(JDict([error |-> JStr(<<54>>)])),
      LfmTrack([name |-> JStr(TXT_Foo)]),
      LfmTrack([album |-> JDict([title |-> JStr(<<76>>)])]),
      LfmTrack([album |-> JDict([image |-> JList(<<IMG, IMG>>)])]),
      LfmTrack([album |-> JDict([image |->
                    JList(<<IMG, IMG, JDict([size |-> JStr(<<108>>)])>>)])]),
      LfmTrack([album |-> JDict([image |-> JList(<<IMG, IMG, IMG>>)])]) }

(***************************************************************************)
(* State.  dev is the device object.  The other variables record the last *)
(* operation: its name, the request it sent, what it returned or raised,  *)
(* whether it took the new-track branch, the enrichment calls it issued   *)
(* and what they were answered (id3_answer, lfm_answer), whether it       *)
(* logged a warning; and last_track, the duration and decoded title of    *)
(* the status that the latest completed refresh applied; arg, what the   *)
(* host passed to the latest command or service call.                     *)
(* players is hass.data[DATA_LINKPLAY], the device objects that           *)
(* setup_platform registered, in order; the entity id of a device is its  *)
(* position.  invoked lists the entity ids on which the latest service    *)
(* call invoked its method.  threads holds, for each thread of the host,  *)
(* the operation it is running on a device object and how far it is.      *)
(***************************************************************************)
VARIABLES dev, op, sent, ret, new_track, calls, id3_answer, lfm_answer,
          warning, last_track, arg, players, invoked, threads

vars == <<dev, op, sent, ret, new_track, calls, id3_answer, lfm_answer,
          warning, last_track, arg, players, invoked, threads>>

\* The state of the host around the device objects.
host_vars == <<players, invoked, threads>>

NoTrack == [dur |-> NoneInt, title |-> None]
NoRequest == Cmd("", STR_empty)
NoArg == [passed |-> "nothing"]
NoThreads == [t \in {} |-> NoArg]

Init ==
    /\ dev \in {LinkPlayDevice(lfm) : lfm \in BOOLEAN}
    /\ op = "__init__"
    /\ sent = NoRequest
    /\ ret = "None"
    /\ new_track = FALSE
    /\ calls = {}
    /\ id3_answer = NoCall
    /\ lfm_answer = NoCall
    /\ warning = FALSE
    /\ last_track = NoTrack
    /\ arg = NoArg
    /\ players = <<>>
    /\ invoked = <<>>
    /\ threads = NoThreads

\* The operation `name` sent `request` and ended as `o`, after the
\* file-tag extraction did id3 and the metadata service answered lfm.
Done(name, request, o, id3, lfm) ==
    /\ dev' = o.d
    /\ id3_answer' = id3
    /\ lfm_answer' = lfm
    /\ op' = name
    /\ sent' = request
    /\ ret' = o.ret
    /\ new_track' = o.new_track
    /\ calls' = o.calls
    /\ warning' = o.warning

\* The status a response carries, if it is a status object.
IsStatus(resp) == json_loads_ok(resp) /\ isinstance_dict(json_loads(resp))

TrackOf(status) ==
    [dur |-> Seconds(status.totlen),
     title |-> IF hexfield_ok(status.Title) THEN hexfield(status.Title)
               ELSE BAD_HEX]

\* A refresh that receives resp; the file-tag extraction and
\* the metadata service are drawn from id3s and lfms when, and only when,
\* the refresh calls them.
Refresh(resp, id3s, lfms) ==
    LET now == utcnow(dev)
        request == Cmd("getPlayerStatus", STR_empty)
        track == IF IsStatus(resp) THEN TrackOf(json_loads(resp).m)
                 ELSE NoTrack
        Ends(o, id3, lfm) ==
            /\ Done("update", request, o, id3, lfm)
            /\ last_track' = IF o.ret = "True" /\ IsStatus(resp)
                             THEN track ELSE last_track
            /\ UNCHANGED <<arg, host_vars>>
        o0 == update(dev, resp, NoCall, NoCall, now)
    IN  IF "id3" \notin o0.calls THEN Ends(o0, NoCall, NoCall)
        ELSE \E id3 \in id3s :
                LET o1 == update(dev, resp, id3, NoData, now)
                IN  IF "lastfm" \notin o1.calls THEN Ends(o1, id3, NoCall)
                    ELSE \E lfm \in lfms :
                            Ends(update(dev, resp, id3, lfm, now), id3, lfm)

Update ==
    \E resp \in StatusResponses : Refresh(resp, Id3Outcomes, LfmResponses)

\* A control command: the method `name`, called with a, sends `request`
\* and receives resp.
Command(name, a, request) ==
    \E resp \in CommandResponses :
        /\ Done(name, request, command(dev, resp), NoCall, NoCall)
        /\ arg' = a
        /\ UNCHANGED <<last_track, host_vars>>

\* Arguments the host passes: volumes in thousandths, positions in
\* seconds, preset indices, and names from the lists the device offers.
Volumes == {334, 666, 1000}
Positions == {0, 90}
Presets == {0, 5, 42, 999, 1000}
MEDIA_TYPE_MUSIC == "music"
MediaTypes == {MEDIA_TYPE_MUSIC, "video"}
MediaIds == {<<97>> \o STR_mp3}
source_list == {SOURCES[k] : k \in DOMAIN SOURCES}
sound_mode_list == {SOUND_MODES[k] : k \in DOMAIN SOUND_MODES}

TurnOff == Command("turn_off", NoArg, turn_off_cmd)
SetVolumeLevel ==
    \E volume \in Volumes :
        Command("set_volume_level", volume, set_volume_level_cmd(volume))
MuteVolume ==
    \E mute \in BOOLEAN : Command("mute_volume", mute, mute_volume_cmd(mute))
MediaPlay == Command("media_play", NoArg, media_play_cmd)
MediaPause == Command("media_pause", NoArg, media_pause_cmd)
MediaNextTrack == Command("media_next_track", NoArg, media_next_track_cmd)
MediaPreviousTrack ==
    Command("media_previous_track", NoArg, media_previous_track_cmd)
MediaSeek ==
    \E position \in Positions :
        Command("media_seek", position, media_seek_cmd(position))
\* play_media returns without a request unless the media type is music
PlayMedia ==
    \E media_type \in MediaTypes, media_id \in MediaIds :
        IF media_type # MEDIA_TYPE_MUSIC
        THEN /\ Done("play_media", NoRequest,
                     Outcome(dev, "None", FALSE, {}), NoCall, NoCall)
             /\ arg' = <<media_type, media_id>>
             /\ UNCHANGED <<last_track, host_vars>>
        ELSE Command("play_media", <<media_type, media_id>>,
                     play_media_cmd(media_id))
SelectSource ==
    \E source \in source_list :
        Command("select_source", source, select_source_cmd(source))
SelectSoundMode ==
    \E sound_mode \in sound_mode_list :
        Command("select_sound_mode", sound_mode,
                select_sound_mode_cmd(sound_mode))
SetShuffle ==
    \E shuffle \in BOOLEAN :
        Command("set_shuffle", shuffle, set_shuffle_cmd(shuffle))
PresetButton ==
    \E preset \in Presets :
        Command("preset_button", preset, preset_button_cmd(preset))

CommandNames ==
    {"turn_off", "set_volume_level", "mute_volume", "media_play",
     "media_pause", "media_next_track", "media_previous_track", "media_seek",
     "play_media", "select_source", "select_sound_mode", "set_shuffle",
     "preset_button"}

\* Refreshes while the device plays tracks that are not files: no
\* enrichment is called for.
SteadyResponses ==
    { NoData,
      Json(JDict(Status(PlaybackTypical, str(180000), URI_MP3, FooBar))),
      Json(JDict(Status(PlaybackOdd, str(0), URI_MP3,
                        <<HexEncode(STR_Unknown), HexEncode(STR_Unknown)>>))) }

UpdateSteady ==
    \E resp \in SteadyResponses : Refresh(resp, {NoCall}, {NoData})

\* Volumes the host can pass, in thousandths: those whose product with
\* MAX_VOL the float arithmetic of volume * MAX_VOL gives exactly (the
\* multiples of 1/8) and a sample of those that are no tie between two
\* integers, where the error of the product cannot change the rounding.
Fractions ==
    {f \in 0..1000 : f % 125 = 0 \/ (f % 37 = 0 /\ f % 10 # 5)}

SetVolumeLevelTo ==
    \E volume \in Fractions :
        Command("set_volume_level", volume, set_volume_level_cmd(volume))

\* The status of a device that holds the volume vol.
EchoStatus(vol) ==
    Status([PlaybackTypical EXCEPT !.vol = vol], str(180000), URI_MP3, FooBar)

\* A refresh after the device acknowledged set_volume_level: the status
\* reports the volume the command carried.
UpdateEcho ==
    /\ op = "set_volume_level"
    /\ dev.lpapi_data = OK
    /\ Refresh(Json(JDict(EchoStatus(sent.arg))), {NoCall}, {NoData})

(***************************************************************************)
(* The platform: setup_platform, the refreshes of the registered devices  *)
(* and the linkplay_preset_button service.  In these actions dev is the   *)
(* object that the latest setup_platform constructed, as its first        *)
(* refresh left it.                                                        *)
(***************************************************************************)
\* What a device answers to getPlayerStatus at and after setup: nothing, a
\* text that is not JSON, a status, a status with a title that is not hex.
SetupResponses ==
    { NoData,
      Text("unknown command"),
      Json(JDict(Status(PlaybackTypical, str(180000), URI_MP3, FooBar))),
      Json(JDict(Status(PlaybackOdd, str(181000), URI_MP3,
                        <<BAD_HEX, HexEncode(TXT_Bar)>>))) }

\* setup_platform, lines 100-114: construct, refresh, register.  ps is
\* hass.data[DATA_LINKPLAY]; lfm is whether the configuration holds a
\* last.fm key; resp is what the device answers to the first refresh.
setup_platform(ps, lfm, resp) ==
    LET linkplay == LinkPlayDevice(lfm)
        o == update(linkplay, resp, NoCall, NoData, utcnow(linkplay))
    IN  IF o.ret = "False"
        THEN [players |-> ps, linkplay |-> o.d, ret |-> "PlatformNotReady"]
        ELSE IF ~Returned(o)
        THEN [players |-> ps, linkplay |-> o.d, ret |-> o.ret]
        ELSE [players |-> Append(ps, o.d), linkplay |-> o.d, ret |-> "None"]

\* _service_handler, lines 82-98.  entity_ids is service.data's entity
\* ids, preset its preset; resps[i] is what device i answers if asked.
\* An empty entity_ids leaves target_players None, and the loop over it
\* raises TypeError.
service_handler(ps, entity_ids, preset, resps) ==
    IF entity_ids = {}
    THEN [players |-> ps, invoked |-> <<>>, ret |-> "TypeError"]
    ELSE LET ids == [i \in 1..Len(ps) |-> i]
             target_players == SelectSeq(ids, LAMBDA i : i \in entity_ids)
         IN  [players |->
                [i \in 1..Len(ps) |->
                    IF i \in entity_ids
                    THEN command(ps[i], resps[i]).d ELSE ps[i]],
              invoked |->
                [k \in 1..Len(target_players) |->
                    [entity_id |-> target_players[k],
                     request |-> preset_button_cmd(preset)]],
              ret |-> "None"]

\* What an action of the platform records of itself.
Step(name, request, r, a, warned) ==
    /\ op' = name
    /\ sent' = request
    /\ ret' = r
    /\ arg' = a
    /\ warning' = warned
    /\ new_track' = FALSE
    /\ calls' = {}
    /\ UNCHANGED <<id3_answer, lfm_answer, last_track, threads>>

SetupPlatform ==
    /\ Len(players) < MaxPlayers
    /\ \E lfm \in BOOLEAN, resp \in SetupResponses :
          LET r == setup_platform(players, lfm, resp)
          IN  /\ players' = r.players
              /\ dev' = r.linkplay
              /\ invoked' = <<>>
              /\ Step("setup_platform", Cmd("getPlayerStatus", STR_empty),
                      r.ret, [lastfm_api_key |-> lfm], FALSE)

\* The host refreshes the registered device i.
UpdatePlayer ==
    \E i \in 1..Len(players), resp \in SetupResponses :
        LET o == update(players[i], resp, NoCall, NoData,
                        utcnow(players[i]))
        IN  /\ players' = [players EXCEPT ![i] = o.d]
            /\ invoked' = <<>>
            /\ UNCHANGED dev
            /\ Step("update", Cmd("getPlayerStatus", STR_empty), o.ret,
                    [entity_id |-> {i}], o.warning)

\* Entity ids a service call can name: those of the devices and one more.
EntityIds == 1..(MaxPlayers + 1)
ServicePresets == {5}

\* A call of the linkplay_preset_button service, registered by the first
\* setup_platform.
ServicePresetButton ==
    /\ op # "__init__"
    /\ \E entity_ids \in SUBSET EntityIds, preset \in ServicePresets,
          resps \in [1..Len(players) -> CommandResponses] :
          LET r == service_handler(players, entity_ids, preset, resps)
          IN  /\ players' = r.players
              /\ invoked' = r.invoked
              /\ UNCHANGED dev
              /\ Step("linkplay_preset_button", NoRequest, r.ret,
                      [entity_id |-> entity_ids, preset |-> preset],
                      \E i \in 1..Len(players) :
                          i \in entity_ids /\ resps[i] # OK)

(***************************************************************************)
(* Threads.  The host calls update and the commands from its threads; the *)
(* device object has no lock.  An operation is three steps: call() resets *)
(* the buffer of the device's LinkPlayRestData object (lines 478-479);    *)
(* the response arrives and call() stores it (lines 484-493); the method  *)
(* reads self._lpapi.data and acts on what it reads.  The steps of the    *)
(* threads interleave.                                                     *)
(***************************************************************************)
Threads == 1..MaxThreads

\* Variant in which every device uses the LinkPlayRestData object of the
\* first.
lpapi_shared(i) == 1

\* self._lpapi = LinkPlayRestData(self._host): device i constructs an
\* object of its own; its buffer is the lpapi_data of players[lpapi(i)].
lpapi(i) == i

\* Variant of the start of call() that leaves the buffer as it is.
call_begin_keeps(d) == d

\* LinkPlayRestData.call, lines 478-479: self.data = None
call_begin(d) == [d EXCEPT !.lpapi_data = NoData]

\* LinkPlayRestData.call, lines 484-493: self.data = response.text, or
\* None after a RequestException
call_end(d, resp) == [d EXCEPT !.lpapi_data = resp]

\* self._lpapi.data as device i reads it
Buffer(ps, i) == ps[lpapi(i)].lpapi_data

Idle ==
    [pc |-> "idle", player |-> 0, method |-> "none", response |-> NoData,
     overlapped |-> FALSE]

\* The threads other than t that are inside a call on the object that
\* device i uses see their buffer written by t.
Overlap(t, i) ==
    [u \in Threads |->
        IF /\ u # t
           /\ threads[u].pc # "idle"
           /\ lpapi(threads[u].player) = lpapi(i)
        THEN [threads[u] EXCEPT !.overlapped = TRUE]
        ELSE threads[u]]

ThreadMethods == {"update", "set_volume_level"}
ThreadStatusResponses ==
    {NoData,
     Json(JDict(Status(PlaybackTypical, str(180000), URI_MP3, FooBar)))}
ThreadCommandResponses == {OK, NoData}

legacy_vars ==
    <<dev, sent, new_track, calls, id3_answer, lfm_answer, last_track, arg,
      invoked>>

InitThreads ==
    /\ dev = LinkPlayDevice(FALSE)
    /\ op = "__init__"
    /\ sent = NoRequest
    /\ ret = "None"
    /\ new_track = FALSE
    /\ calls = {}
    /\ id3_answer = NoCall
    /\ lfm_answer = NoCall
    /\ warning = FALSE
    /\ last_track = NoTrack
    /\ arg = NoArg
    /\ players = [i \in 1..MaxPlayers |-> LinkPlayDevice(FALSE)]
    /\ invoked = <<>>
    /\ threads = [t \in Threads |-> Idle]

\* Thread t enters a method of device i, which enters call().
CallBegin ==
    \E t \in Threads, i \in 1..Len(players), method \in ThreadMethods :
        /\ threads[t].pc = "idle"
        /\ players' = [players EXCEPT ![lpapi(i)] = call_begin(@)]
        /\ threads' = [Overlap(t, i) EXCEPT
                          ![t] = [pc |-> "called", player |-> i,
                                  method |-> method, response |-> NoData,
                                  overlapped |-> FALSE]]
        /\ UNCHANGED <<op, ret, warning, legacy_vars>>

\* The device answers the request of thread t, or the request fails.
CallEnd ==
    \E t \in Threads :
        /\ threads[t].pc = "called"
        /\ \E resp \in IF threads[t].method = "update"
                        THEN ThreadStatusResponses
                        ELSE ThreadCommandResponses :
              LET i == threads[t].player
              IN  /\ players' = [players EXCEPT
                                    ![lpapi(i)] = call_end(@, resp)]
                  /\ threads' = [Overlap(t, i) EXCEPT
                                    ![t].pc = "answered",
                                    ![t].response = resp]
        /\ UNCHANGED <<op, ret, warning, legacy_vars>>

\* Thread t is back from call(): the method reads the buffer and acts.
Finish ==
    \E t \in Threads :
        /\ threads[t].pc = "answered"
        /\ LET i == threads[t].player
               value == Buffer(players, i)
               d == [players[i] EXCEPT !.lpapi_data = value]
               o == IF threads[t].method = "update"
                    THEN update(d, value, NoCall, NoData, utcnow(d))
                    ELSE command(d, value)
           IN  /\ players' = [players EXCEPT
                                 ![i] = [o.d EXCEPT !.lpapi_data =
                                            players[i].lpapi_data]]
               /\ op' = threads[t].method
               /\ ret' = o.ret
               /\ warning' = o.warning
        /\ threads' = [threads EXCEPT ![t] = Idle]
        /\ UNCHANGED legacy_vars

(***************************************************************************)
(* Specifications.  Spec: the refreshes of one device object, over every  *)
(* answer of the device, the file-tag extraction and the metadata         *)
(* service.  SpecCommands: the control commands between refreshes.        *)
(* SpecVolume: set_volume_level and the refresh that reads the volume     *)
(* back.  SpecSetup: the platform with up to MaxPlayers devices.          *)
(* SpecThreads: MaxPlayers device objects driven from MaxThreads threads. *)
(***************************************************************************)
Next == Update

Spec == Init /\ [][Next]_vars

NextCommands ==
    \/ UpdateSteady
    \/ TurnOff
    \/ SetVolumeLevel
    \/ MuteVolume
    \/ MediaPlay
    \/ MediaPause
    \/ MediaNextTrack
    \/ MediaPreviousTrack
    \/ MediaSeek
    \/ PlayMedia
    \/ SelectSource
    \/ SelectSoundMode
    \/ SetShuffle
    \/ PresetButton

SpecCommands == Init /\ [][NextCommands]_vars

NextVolume ==
    \/ SetVolumeLevelTo
    \/ UpdateEcho

SpecVolume == Init /\ [][NextVolume]_vars

NextSetup ==
    \/ SetupPlatform
    \/ UpdatePlayer
    \/ ServicePresetButton

SpecSetup == Init /\ [][NextSetup]_vars

NextThreads ==
    \/ CallBegin
    \/ CallEnd
    \/ Finish

SpecThreads == InitThreads /\ [][NextThreads]_vars

(***************************************************************************)
(* Vocabulary of the properties.                                           *)
(***************************************************************************)
\* The player state of the device object.
PlayerState(d) ==
    [state |-> d.state, volume |-> d.volume, muted |-> d.muted,
     source |-> d.source, sound_mode |-> d.sound_mode,
     shuffle |-> d.shuffle, seek_position |-> d.seek_position,
     duration |-> d.duration,
     position_updated_at |-> d.position_updated_at,
     media_title |-> d.media_title, media_artist |-> d.media_artist,
     media_album |-> d.media_album,
     media_image_url |-> d.media_image_url, media_uri |-> d.media_uri]

\* The player state but for positionUpdatedAt.
PlayerStateButTime(d) == [PlayerState(d) EXCEPT !.position_updated_at = 0]

\* The last operation was a refresh that received a status object; the
\* buffer still holds it.
RefreshedStatus == op = "update" /\ IsStatus(dev.lpapi_data)
LastStatus == json_loads(dev.lpapi_data).m

\* The refresh ran to its end.
Completed == ret = "True"

\* The text a hex field of the status decodes to.
Decodes(h, text) == hexfield_ok(h) /\ hexfield(h) = text

\* The body received is one the status decoder rejects: not JSON, not an
\* object, or an object with a track URI, title or artist that is not hex.
DecodeError(body) ==
    /\ body # NoData
    /\ \/ ~IsStatus(body)
       \/ ~hexfield_ok(json_loads(body).m.iuri)
       \/ ~hexfield_ok(json_loads(body).m.Title)
       \/ ~hexfield_ok(json_loads(body).m.Artist)

(***************************************************************************)
(* C1.  Track-change detection across refreshes: after a refresh applied  *)
(* a status of duration d seconds and decoded title t, a refresh whose    *)
(* status has the same d and t is not treated as a new track and issues   *)
(* no enrichment call; one whose duration in seconds differs is treated   *)
(* as a new track.                                                         *)
(***************************************************************************)
C1_TrackChangeDetection ==
    [][ (/\ op' = "update"
         /\ ret' = "True"
         /\ IsStatus(dev'.lpapi_data)
         /\ last_track # NoTrack)
        => /\ last_track' = last_track => ~new_track' /\ calls' = {}
           /\ last_track'.dur # last_track.dur => new_track' ]_vars

(***************************************************************************)
(* C2.  Refresh is idempotent on an unchanged status: a refresh that      *)
(* receives the status the refresh before it received leaves every field  *)
(* of the player state as it was, except positionUpdatedAt.               *)
(***************************************************************************)
C2_RefreshIdempotent ==
    [][ (/\ op = "update" /\ ret = "True" /\ IsStatus(dev.lpapi_data)
         /\ op' = "update" /\ ret' = "True"
         /\ dev'.lpapi_data = dev.lpapi_data)
        => PlayerStateButTime(dev') = PlayerStateButTime(dev) ]_vars

(***************************************************************************)
(* C3.  On a decode error of the status (not JSON, not an object, a URI,  *)
(* title or artist that is not hex) the refresh leaves every field of the *)
(* player state as it was.                                                 *)
(***************************************************************************)
C3_DecodeErrorKeepsState ==
    [][ (op' = "update" /\ DecodeError(dev'.lpapi_data))
        => PlayerState(dev') = PlayerState(dev) ]_vars

(***************************************************************************)
(* C4.  A refresh returns False exactly when the status fetch returned no *)
(* data, and then leaves the player state as it was; when the data        *)
(* received is malformed (not JSON, not an object, a field that is not    *)
(* hex) it returns True rather than failing or raising.                    *)
(***************************************************************************)
C4_FailureIffNoData ==
    [][ op' = "update"
        => /\ ret' = "False" <=> dev'.lpapi_data = NoData
           /\ DecodeError(dev'.lpapi_data) => ret' = "True"
           /\ dev'.lpapi_data = NoData
                => PlayerState(dev') = PlayerState(dev) ]_vars

(***************************************************************************)
(* C5.  Radio rule, as claimed: after any refresh whose status has totlen *)
(* "0", the album is the empty string, the image URL is unset and no      *)
(* enrichment call was issued.                                             *)
(***************************************************************************)
IsRadioStatus == RefreshedStatus /\ Completed /\ LastStatus.totlen = STR_0

RadioCleared ==
    /\ dev.media_album = STR_empty
    /\ dev.media_image_url = None
    /\ calls = {}

C5_RadioRuleAnyRefresh == IsRadioStatus => RadioCleared

\* The status decodes to title 'Unknown' and artist 'Unknown'.
IsSpotifyStatus ==
    /\ RefreshedStatus
    /\ Decodes(LastStatus.Title, STR_Unknown)
    /\ Decodes(LastStatus.Artist, STR_Unknown)

(***************************************************************************)
(* C5, amended.  After a refresh that detects a new track and whose       *)
(* status has totlen "0" and does not decode to title 'Unknown' with      *)
(* artist 'Unknown', the album is the empty string, the image URL is      *)
(* unset and no enrichment call was issued, also when the track URI ends  *)
(* in '.mp3'.                                                              *)
(***************************************************************************)
C5_RadioRule ==
    (IsRadioStatus /\ new_track /\ ~IsSpotifyStatus) => RadioCleared

\* A radio refresh of a track whose URI ends in '.mp3'.
C5_Witness ==
    /\ IsRadioStatus /\ new_track /\ ~IsSpotifyStatus
    /\ is_playing_mp3(dev)
    /\ dev.lfmapi
    /\ RadioCleared

(***************************************************************************)
(* C6.  Spotify rule: after any refresh whose status decodes to title     *)
(* 'Unknown' and artist 'Unknown', the title and the artist are both      *)
(* 'Spotify' and no enrichment call was issued.                           *)
(***************************************************************************)
ShowsSpotify ==
    /\ dev.media_title = STR_Spotify
    /\ dev.media_artist = STR_Spotify
    /\ calls = {}

C6_SpotifyRuleAnyRefresh == (IsSpotifyStatus /\ Completed) => ShowsSpotify

(***************************************************************************)
(* C7.  Volume range: once a refresh has stored a volume, it is in        *)
(* 0..100, whatever the device reported.                                   *)
(***************************************************************************)
C7_VolumeInRange ==
    dev.volume # None => volume_level_percent(dev) \in 0..MAX_VOL

(***************************************************************************)
(* C8.  The cover-art lookup never fails the refresh: when the metadata   *)
(* service answers with no data, with a text that is not JSON, or with    *)
(* JSON without the path track, album, image, 2, #text, the refresh       *)
(* completes and the image URL is unset.                                   *)
(***************************************************************************)
\* The answer holds no cover URL at the expected path.
NoCoverArt(answer) ==
    \/ answer = NoData
    \/ ~json_loads_ok(answer)
    \/ coverart_path(json_loads(answer)).exc # "none"

C8_CoverArtNeverFails ==
    (op = "update" /\ "lastfm" \in calls /\ NoCoverArt(lfm_answer))
        => Completed /\ dev.media_image_url = None

(***************************************************************************)
(* C9.  A failed file-tag extraction is not fatal and clears: when the    *)
(* extraction fails, by fetch error or by parse error, the refresh        *)
(* completes and title, artist, album and image URL are all unset.        *)
(***************************************************************************)
C9_TagFailureClears ==
    (op = "update" /\ "id3" \in calls /\ id3_answer.r # "tags")
        => /\ Completed
           /\ dev.media_title = None
           /\ dev.media_artist = None
           /\ dev.media_album = None
           /\ dev.media_image_url = None

(***************************************************************************)
(* C10.  Commands never change the player state and never break the       *)
(* device object: whatever the device answers ("OK", another text, or     *)
(* nothing), a command returns without raising and leaves every field of  *)
(* the player state as it was; and what a later refresh or command does   *)
(* is what it does on a device object whose response buffer is empty, so  *)
(* nothing of the earlier command is left to act on it.                   *)
(***************************************************************************)
\* d with the response buffer of a new device object
EmptyBuffer(d) == [d EXCEPT !.lpapi_data = NoData]

C10_CommandsKeepState ==
    [][ /\ op' \in CommandNames
            => /\ ret' = "None"
               /\ PlayerState(dev') = PlayerState(dev)
               /\ dev'.first_update = dev.first_update
               /\ dev'.lfmapi = dev.lfmapi
        /\ (op' \in CommandNames /\ sent' # NoRequest)
            => dev' = command(EmptyBuffer(dev), dev'.lpapi_data).d
        /\ op' = "update"
            => LET o == update(EmptyBuffer(dev), dev'.lpapi_data, NoCall,
                               NoData, utcnow(dev))
               IN  dev' = o.d /\ ret' = o.ret ]_vars

\* A command failed at the transport on a device object that a refresh
\* had filled.
C10_Witness ==
    /\ op \in CommandNames
    /\ warning
    /\ dev.lpapi_data = NoData
    /\ dev.volume # None
    /\ dev.state = STATE_PLAYING

(***************************************************************************)
(* C12.  Source and sound-mode normalisation: after a refresh that        *)
(* decoded its status, source is the SOURCES_MAP entry of the mode code   *)
(* and 'WiFi' for a code the table lacks, sound_mode is the SOUND_MODES   *)
(* entry of the eq code and unset for a code the table lacks; so source   *)
(* is a name of the source list and sound_mode is unset or a name of the  *)
(* sound-mode list.                                                        *)
(***************************************************************************)
C12_SourceAndSoundMode ==
    (RefreshedStatus /\ Completed)
        => /\ LastStatus.mode \in DOMAIN SOURCES_MAP
                => dev.source = SOURCES_MAP[LastStatus.mode]
           /\ LastStatus.mode \notin DOMAIN SOURCES_MAP
                => dev.source = "WiFi"
           /\ LastStatus.eq \in DOMAIN SOUND_MODES
                => dev.sound_mode = SOUND_MODES[LastStatus.eq]
           /\ LastStatus.eq \notin DOMAIN SOUND_MODES
                => dev.sound_mode = "None"
           /\ dev.source \in source_list
           /\ dev.sound_mode \in sound_mode_list \cup {"None"}

\* A refresh decoded a status with mode '99' and eq '9'.
C12_Witness ==
    /\ RefreshedStatus /\ Completed
    /\ LastStatus.mode = "99" /\ LastStatus.eq = "9"
    /\ dev.source = "WiFi" /\ dev.sound_mode = "None"

(***************************************************************************)
(* C17.  Cover-art lookup gating: a refresh calls the cover-art lookup    *)
(* only if it detected a new track that is neither Spotify nor radio,     *)
(* whose URI ends in '.mp3', whose tags it read, and a metadata-service   *)
(* key is configured; in every other case of a file track the image URL   *)
(* is unset after the refresh; and the tag fetch is never called for a    *)
(* Spotify or radio track.                                                 *)
(***************************************************************************)
\* u ends in '.mp3', letter case as written
EndsInMp3(u) ==
    Len(u) >= 4 /\ SubSeq(u, Len(u) - 3, Len(u)) = STR_mp3

C17_CoverArtGating ==
    RefreshedStatus
        => /\ "lastfm" \in calls
                => /\ new_track
                   /\ ~IsSpotifyStatus
                   /\ LastStatus.totlen # STR_0
                   /\ EndsInMp3(hexfield(LastStatus.iuri))
                   /\ id3_answer.r = "tags"
                   /\ dev.lfmapi
           /\ ("id3" \in calls /\ "lastfm" \notin calls)
                => dev.media_image_url = None
           /\ "id3" \in calls
                => ~IsSpotifyStatus /\ LastStatus.totlen # STR_0

(***************************************************************************)
(* C18.  Frame of a refresh that does not detect a new track: title,      *)
(* artist, album and image URL are as they were, and volume, muted, seek  *)
(* position, playback state, source, sound mode, shuffle, media URI and   *)
(* duration are those of the status; the duration is that of the status   *)
(* after every refresh that decoded its status, new track or not.         *)
(***************************************************************************)
\* d holds the playback fields of the status st.
FollowsStatus(d, st) ==
    /\ d.volume = st.vol
    /\ d.muted = st.mute
    /\ d.seek_position = int(st.curpos) \div 1000
    /\ d.state = CASE st.status = "play" -> "playing"
                   [] st.status \in {"stop", "pause"} -> "paused"
                   [] OTHER -> "unknown"
    /\ d.source = IF st.mode \in DOMAIN SOURCES_MAP
                  THEN SOURCES_MAP[st.mode] ELSE "WiFi"
    /\ d.sound_mode = IF st.eq \in DOMAIN SOUND_MODES
                      THEN SOUND_MODES[st.eq] ELSE "None"
    /\ d.shuffle = IF st.loop = "2" THEN "True" ELSE "False"
    /\ HexEncode(d.media_uri) = st.iuri
    /\ d.duration = int(st.totlen) \div 1000

C18_FrameWithoutNewTrack ==
    [][ (op' = "update" /\ ret' = "True" /\ IsStatus(dev'.lpapi_data))
        => LET st == json_loads(dev'.lpapi_data).m
           IN  /\ dev'.duration = int(st.totlen) \div 1000
               /\ ~new_track'
                    => /\ dev'.media_title = dev.media_title
                       /\ dev'.media_artist = dev.media_artist
                       /\ dev'.media_album = dev.media_album
                       /\ dev'.media_image_url = dev.media_image_url
                       /\ FollowsStatus(dev', st) ]_vars

\* A refresh found no new track in a status that is not a radio status and
\* reports another volume: the album of the radio refresh before it is
\* kept, the volume is the new one.
C18_Witness ==
    /\ RefreshedStatus /\ Completed /\ ~new_track
    /\ LastStatus.totlen = str(500)
    /\ LastStatus.vol = str(150)
    /\ dev.volume = str(150)
    /\ dev.media_album = STR_empty
    /\ dev.duration = 0

(***************************************************************************)
(* C19.  No stale metadata after a track change: after a refresh that     *)
(* detects a new track, whatever its classification, the album and the    *)
(* image URL are set by this refresh's own enrichment or cleared.         *)
(***************************************************************************)
\* a is cleared, or the album the tag extraction of this refresh read
FreshAlbum(a, id3) ==
    \/ a \in {STR_empty, None}
    \/ id3.r = "tags" /\ a = id3.album

\* u is unset, or the URL the lookup of this refresh found
FreshImage(u, lookups, lfm) ==
    \/ u = None
    \/ /\ "lastfm" \in lookups
       /\ ~NoCoverArt(lfm)
       /\ u = pyvalue(coverart_path(json_loads(lfm)).v)

NearestPercent(n, f) == 2 * (f - 10 * n) \in -10..10

C13_VolumeRoundTrip ==
    /\ op = "set_volume_level"
        => /\ sent.verb = "setPlayerCmd:vol:"
           /\ sent.arg = str(int(sent.arg))
           /\ int(sent.arg) \in 0..MAX_VOL
           /\ NearestPercent(int(sent.arg), arg)
    /\ (op = "update" /\ Completed)
        => /\ volume_level_percent(dev) \in 0..MAX_VOL
           /\ NearestPercent(volume_level_percent(dev), arg)

\* The volume 0.666 was sent as 67 and read back as 0.67.
C13_Witness ==
    /\ op = "update" /\ Completed
    /\ arg = 666
    /\ volume_level_percent(dev) = 67

(***************************************************************************)
(* C15.  Preset-button encoding: for every preset index the command sent  *)
(* is 'IOSimuKeyIn:' and the index zero-padded to 3 digits, so the        *)
(* argument has exactly 3 digits.                                          *)
(***************************************************************************)
Digits(s) == \A i \in 1..Len(s) : s[i] \in 48..57

C15_PresetThreeDigits ==
    op = "preset_button"
        => /\ sent.verb = "IOSimuKeyIn:"
           /\ Digits(sent.arg)
           /\ int(sent.arg) = arg
           /\ Len(sent.arg) = 3

(***************************************************************************)
(* C15, amended.  For every preset index the command sent is              *)
(* 'IOSimuKeyIn:' and the decimal index padded with zeros on the left to  *)
(* at least 3 digits: exactly 3 digits for an index up to 999 (5 gives    *)
(* 005), and the digits of the index, more than 3, from 1000 on.          *)
(***************************************************************************)
C15_PresetPadded ==
    op = "preset_button"
        => /\ sent.verb = "IOSimuKeyIn:"
           /\ Digits(sent.arg)
           /\ int(sent.arg) = arg
           /\ arg <= 999 => Len(sent.arg) = 3
           /\ arg >= 1000 => sent.arg = str(arg) /\ Len(sent.arg) > 3
           /\ arg = 5 => sent.arg = <<48, 48, 53>>

\* preset_button(5) sent IOSimuKeyIn:005
C15_Witness ==
    /\ op = "preset_button"
    /\ arg = 5
    /\ sent = Cmd("IOSimuKeyIn:", <<48, 48, 53>>)

(***************************************************************************)
(* C11.  Startup escalation: setup_platform raises PlatformNotReady, and  *)
(* does not register the device, exactly when the first status fetch      *)
(* failed at the transport; on a registered device every later failure    *)
(* (transport, decode, acknowledgement) is absorbed: the operation does   *)
(* not raise and the player state is as it was.                           *)
(***************************************************************************)
\* What the operation on player i received is a failure.
FailedOn(d) == d.lpapi_data = NoData \/ DecodeError(d.lpapi_data)

C11_StartupEscalation ==
    [][ /\ op' = "setup_platform"
            => /\ ret' = "PlatformNotReady" <=> dev'.lpapi_data = NoData
               /\ players' = players <=> dev'.lpapi_data = NoData
        /\ op' = "update"
            => /\ ret' \in {"True", "False"}
               /\ \A i \in 1..Len(players) :
                    FailedOn(players'[i])
                        => PlayerState(players'[i]) = PlayerState(players[i])
        /\ (op' = "linkplay_preset_button" /\ arg'.entity_id # {})
            => /\ ret' = "None"
               /\ \A i \in 1..Len(players) :
                    PlayerState(players'[i]) = PlayerState(players[i])
      ]_vars

(***************************************************************************)
(* C14.  Batch preset command: for every set of entity ids and every      *)
(* preset, the service calls preset_button with that preset once on each  *)
(* registered device whose entity id is in the set and on no other, and   *)
(* ends without error, also when the set is empty or names no registered  *)
(* device.                                                                 *)
(***************************************************************************)
\* How often the latest service call invoked its method on entity i.
Invocations(i) ==
    Cardinality({k \in 1..Len(invoked) : invoked[k].entity_id = i})

C14_BatchPreset ==
    op = "linkplay_preset_button"
        => /\ ret = "None"
           /\ \A i \in EntityIds :
                Invocations(i) =
                    IF i \in arg.entity_id /\ i <= Len(players) THEN 1 ELSE 0
           /\ \A k \in 1..Len(invoked) :
                invoked[k].request = preset_button_cmd(arg.preset)

(***************************************************************************)
(* C16.  Device independence under concurrency: with distinct device      *)
(* objects driven from several threads in any interleaving, a step of an  *)
(* operation on one device leaves the player state and the response       *)
(* buffer of every other device as they were, and what it makes of its    *)
(* own device is determined by that device and the response alone.        *)
(***************************************************************************)
\* The device that the step of thread t is on.
PlayerOfStep(t) ==
    IF threads[t].pc = "idle" THEN threads'[t].player ELSE threads[t].player

C16_DevicesIndependent ==
    [][ \A t \in Threads :
          threads'[t].pc # threads[t].pc
            => LET i == PlayerOfStep(t)
                   d == players[i]
               IN  /\ \A j \in 1..Len(players) :
                        j # i => players'[j] = players[j]
                   /\ players'[i] =
                        CASE threads[t].pc = "idle" ->
                                [d EXCEPT !.lpapi_data = NoData]
                          [] threads[t].pc = "called" ->
                                [d EXCEPT !.lpapi_data = threads'[t].response]
                          [] OTHER ->
                                IF threads[t].method = "update"
                                THEN update(d, d.lpapi_data, NoCall, NoData,
                                            utcnow(d)).d
                                ELSE d ]_vars

\* Two threads are each back from a call on a device of their own; one
\* buffer holds a status, the other an acknowledgement.
C16_Witness ==
    /\ threads[1].pc = "answered" /\ threads[1].player = 1
    /\ threads[2].pc = "answered" /\ threads[2].player = 2
    /\ IsStatus(players[1].lpapi_data)
    /\ players[2].lpapi_data = OK
    /\ players[2].volume # None

(***************************************************************************)
(* C20.  Each operation consumes only its own response: call() resets the *)
(* buffer at its start; a refresh acts on the response to its own         *)
(* request, so that it returns False exactly when its own request failed  *)
(* at the transport, and it never decodes the response to a command; a    *)
(* command warns exactly when its own response is not "OK".  As claimed,  *)
(* this holds also when operations on one device object overlap.          *)
(***************************************************************************)
\* Thread t ends its operation in this step.
Finishes(t) == threads[t].pc = "answered" /\ threads'[t].pc = "idle"

\* The operation that thread t ends acted on the response to its request.
ConsumesOwn(t) ==
    LET own == threads[t].response
        d == players'[threads[t].player]
    IN  IF threads[t].method = "update"
        THEN /\ ret' = "False" <=> own = NoData
             /\ ~warning'
             /\ IsStatus(own)
                    => /\ ret' = "True"
                       /\ d.volume = json_loads(own).m.vol
                       /\ d.duration = int(json_loads(own).m.totlen) \div 1000
        ELSE warning' <=> own # OK

\* The step in which thread t enters call() leaves the buffer empty.
ResetsBuffer(t) ==
    (threads[t].pc = "idle" /\ threads'[t].pc = "called")
        => players'[threads'[t].player].lpapi_data = NoData

C20_OwnResponseAlways ==
    [][ \A t \in Threads :
          /\ ResetsBuffer(t)
          /\ Finishes(t) => ConsumesOwn(t) ]_vars

(***************************************************************************)
(* C20, amended.  call() resets the buffer at its start, and an operation *)
(* acts on the response to its own request when no other operation on     *)
(* the same device object entered call() or received a response between   *)
(* the operation's entry into call() and its reading of the buffer.       *)
(***************************************************************************)
C20_OwnResponseWhenSerialized ==
    [][ \A t \in Threads :
          /\ ResetsBuffer(t)
          /\ (Finishes(t) /\ ~threads[t].overlapped) => ConsumesOwn(t)
      ]_vars

\* A refresh of device 1 applied its status while the other thread is in
\* a command on device 2, and device 1 had acknowledged a command before.
C20_Witness ==
    /\ op = "update" /\ ret = "True"
    /\ players[1].volume = str(50)
    /\ IsStatus(players[1].lpapi_data)
    /\ \E u \in Threads :
        threads[u].pc = "answered" /\ threads[u].player = 2

=============================================================================
